---- MODULE Spec2Model ----
(***************************************************************************)
(* Model of backend/app.py: the progress table download_progress, the      *)
(* cleanup thread cleanup_progress_data, the yt-dlp progress_hook, the     *)
(* /progress and /download handlers and the delayed_delete threads.        *)
(*                                                                         *)
(* Granularity: one Python statement that touches shared state is one      *)
(* atomic step (the interpreter lock); threads interleave between          *)
(* statements.  yt-dlp and the file system are the environment: what they  *)
(* report or produce is chosen with \E from small sets.                    *)
(* Time is an integer number of seconds (time.time()).  time.sleep(n)      *)
(* returns no earlier than n seconds after the call.  The cleanup thread   *)
(* may be scheduled any time after that; a delayed_delete thread runs      *)
(* at its wake-up time (the clock does not pass it before the thread has   *)
(* run).  Statements between two blocking calls take no time: the clock   *)
(* advances only while every thread is inside yt-dlp, asleep or idle.      *)
(***************************************************************************)
EXTENDS Integers, Sequences, FiniteSets, TLC

(* ---------------- program constants ---------------- *)
TTL == 1800
SweepInterval == 300
DeleteDelay == 60
PlaceholderCap == 95

(* ---------------- bounds of the exploration ---------------- *)
NumThreads == 2
MaxRequests == 2
MaxHooks == 1
MaxTime == 1801
MaxEntries == 2
MaxFormats == 2

Threads == 1..NumThreads

(* requested URLs; "" is the missing/empty url *)
Urls == {"a", "b"}
NoUrl == ""
(* keys the hook can write under: info_dict.webpage_url, or 'unknown' *)
HookKeys == Urls \cup {"unknown"}
(* the url of the jobs of the specifications about one key *)
PolledUrls == {"a"}
Formats == {"mp3", "mp4"}
Qualities == {"q"}
(* the quality labels of audio requests: the three of bitrate_map and another *)
AudioQualities == {"128k", "192k", "320k", "q"}

(* instants, besides the wake-up times of delayed_delete, at which the clock
   is observed: one second after the start, and one second more than the TTL *)
Instants == {1} \cup (TTL + 1 .. MaxTime)

VARIABLES
    now,                \* time.time()
    download_progress,  \* the dict, as its insertion-ordered items <<key, record>>
    thread,             \* request threads: position and locals of download_video
    reaper,             \* the cleanup thread: position and locals
    files,              \* paths present in DOWNLOADS_FOLDER
    janitor,            \* delayed_delete threads: [filepath, at, done]
    requests,           \* /download requests accepted so far, up to MaxRequests
    response            \* the HTTP response the step just taken sent, or NoResponse

vars == <<now, download_progress, thread, reaper, files, janitor, requests, response>>

(* ---------------- the dict ---------------- *)
RECURSIVE IndexOf(_, _, _)
IndexOf(items, k, i) ==
    IF i > Len(items) THEN 0
    ELSE IF items[i][1] = k THEN i ELSE IndexOf(items, k, i + 1)

Has(items, k) == IndexOf(items, k, 1) # 0

Keys(items) == {items[i][1] : i \in 1..Len(items)}

\* items[k], for a key that is present
Lookup(items, k) == items[IndexOf(items, k, 1)][2]

\* items[k] = rec : replaces the value in place, or appends a new key
Store(items, k, rec) ==
    IF Has(items, k)
    THEN [items EXCEPT ![IndexOf(items, k, 1)] = <<k, rec>>]
    ELSE Append(items, <<k, rec>>)

\* del items[k], for a key that is present
Delete(items, k) ==
    LET i == IndexOf(items, k, 1)
    IN  SubSeq(items, 1, i - 1) \o SubSeq(items, i + 1, Len(items))

\* the defaultdict's factory (line 21)
DefaultRecord(t) == [progress |-> 0, timestamp |-> t]

\* download_progress[k] on the defaultdict: a missing key is inserted first
Touch(items, k, t) ==
    IF Has(items, k) THEN items ELSE Append(items, <<k, DefaultRecord(t)>>)

\* dict.get(field, default) on a record
Field(rec, f, default) == IF f \in DOMAIN rec THEN rec[f] ELSE default

Min(x, y) == IF x <= y THEN x ELSE y

NoResponse == [route |-> "", status |-> 0]

(* ---------------- /progress ---------------- *)
\* lines 116-122
ProgressFields(progress_data) ==
    [progress         |-> Field(progress_data, "progress", 0),
     downloaded_bytes |-> Field(progress_data, "downloaded_bytes", 0),
     total_bytes      |-> Field(progress_data, "total_bytes", 0),
     speed            |-> Field(progress_data, "speed", 0),
     eta              |-> Field(progress_data, "eta", 0)]

\* a poll whose default for a missing key is not the zero record
ProgressBodyUnknown(items, url) ==
    ProgressFields(IF Has(items, url) THEN Lookup(items, url)
                   ELSE [progress |-> -1])

\* lines 114-122: the body of the 200 response
ProgressBody(items, url) ==
    ProgressFields(IF Has(items, url) THEN Lookup(items, url)
                   ELSE [progress |-> 0])

NoUrlResponse(route) ==
    [route |-> route, status |-> 400, error |-> "No URL provided"]

\* a poll that indexes the defaultdict: a missing key gets its record
check_progress_indexing(video_url) ==
    /\ response' = IF video_url = NoUrl THEN NoUrlResponse("/progress")
                   ELSE [route |-> "/progress", status |-> 200, url |-> video_url,
                         body |-> ProgressBody(download_progress, video_url)]
    /\ download_progress' = IF video_url = NoUrl THEN download_progress
                            ELSE Touch(download_progress, video_url, now)
    /\ UNCHANGED <<now, thread, reaper, files, janitor, requests>>

\* lines 105-122
check_progress(video_url) ==
    /\ response' = IF video_url = NoUrl THEN NoUrlResponse("/progress")
                   ELSE [route |-> "/progress", status |-> 200, url |-> video_url,
                         body |-> ProgressBody(download_progress, video_url)]
    /\ UNCHANGED <<now, download_progress, thread, reaper, files, janitor, requests>>

(* ---------------- progress_hook ---------------- *)
\* what yt-dlp reports in one 'downloading' call of the hook; 0 stands for a
\* total that is absent, None or 0 (all are falsy at line 51)
HookEvents ==
    { [total_bytes |-> 4, total_bytes_estimate |-> 0, downloaded_bytes |-> 1,
       speed |-> 5, eta |-> 3],
      [total_bytes |-> 4, total_bytes_estimate |-> 0, downloaded_bytes |-> 4,
       speed |-> 5, eta |-> 0],
      [total_bytes |-> 0, total_bytes_estimate |-> 2, downloaded_bytes |-> 3,
       speed |-> 5, eta |-> 1],
      [total_bytes |-> 0, total_bytes_estimate |-> 0, downloaded_bytes |-> 1,
       speed |-> 0, eta |-> 0] }

\* a report with a known total, and one with none
StoreEvents == {d \in HookEvents : d.downloaded_bytes = 1}

\* the reports with a known total below 100 percent
KnownEvents == {d \in StoreEvents : d.total_bytes > 0}

\* lines 48-52
TotalBytes(d) ==
    IF d.total_bytes # 0 THEN d.total_bytes ELSE d.total_bytes_estimate

\* a placeholder that counts on to 100
PercentUncapped(d, items, url) ==
    IF TotalBytes(d) > 0
    THEN (d.downloaded_bytes * 100) \div TotalBytes(d)
    ELSE Min(100, Lookup(items, url).progress + 1)

\* lines 54-58; the totals of HookEvents are powers of two and divide
\* downloaded * 100, so the float (downloaded / total) * 100 is this integer
Percent(d, items, url) ==
    IF TotalBytes(d) > 0
    THEN (d.downloaded_bytes * 100) \div TotalBytes(d)
    ELSE Min(PlaceholderCap, Lookup(items, url).progress + 1)

\* lines 61-68: the record the hook stores
HookRecord(h, t) ==
    [progress         |-> h.percent,
     timestamp        |-> t,
     downloaded_bytes |-> h.downloaded_bytes,
     total_bytes      |-> h.total_bytes,
     speed            |-> h.speed,
     eta              |-> h.eta]

NoHook == [url |-> NoUrl]
NoInfo == [kind |-> "none"]

\* find_best_audio_format is not running
NoProbe == [pending |-> TRUE]

IdleThread ==
    [pc |-> "idle", url |-> NoUrl, format |-> "", quality |-> "",
     hooks |-> 0, h |-> NoHook, info |-> NoInfo,
     probed |-> NoProbe, best_audio_format |-> ""]

\* lines 44-58, called by yt-dlp inside extract_info of thread j: the hook's
\* locals are computed; on the placeholder path the read of
\* download_progress[url] inserts the default record for a missing key
hook_compute(j, d, webpage_url) ==
    /\ thread[j].pc = "fetch"
    /\ LET touched == IF TotalBytes(d) > 0 THEN download_progress
                      ELSE Touch(download_progress, webpage_url, now)
       IN  /\ download_progress' = touched
           /\ thread' = [thread EXCEPT ![j].pc = "hook",
                            ![j].hooks = Min(@ + 1, MaxHooks),
                            ![j].h = [url |-> webpage_url,
                                      percent |-> Percent(d, touched, webpage_url),
                                      downloaded_bytes |-> d.downloaded_bytes,
                                      total_bytes |-> TotalBytes(d),
                                      speed |-> d.speed,
                                      eta |-> d.eta]]
    /\ response' = NoResponse
    /\ UNCHANGED <<now, reaper, files, janitor, requests>>

\* lines 61-68
hook_store(j) ==
    /\ thread[j].pc = "hook"
    /\ download_progress' =
           Store(download_progress, thread[j].h.url, HookRecord(thread[j].h, now))
    /\ thread' = [thread EXCEPT ![j].pc = "fetch", ![j].h = NoHook]
    /\ response' = NoResponse
    /\ UNCHANGED <<now, reaper, files, janitor, requests>>

(* ---------------- /download ---------------- *)
\* the file name ydl.prepare_filename makes from outtmpl (line 153):
\* "%(title)s_" + quality + ".%(ext)s" under DOWNLOADS_FOLDER
Path(title, quality, ext) == [title |-> title, quality |-> quality, ext |-> ext]

\* the title yt-dlp reports for a url, and for entry i of a playlist url
Title(url) == <<url>>
EntryTitle(url, i) == <<url, i>>

\* extension prepare_filename reports: the source container for an audio job
\* (the mp3 is written by the FFmpegExtractAudio postprocessor)
SourceExt(format) == IF format = "mp3" THEN "webm" ELSE "mp4"

\* line 212: filepath.replace(".webm", ".mp3").replace(".m4a", ".mp3")
Mp3Path(filepath) ==
    IF filepath.ext \in {"webm", "m4a"} THEN [filepath EXCEPT !.ext = "mp3"]
    ELSE filepath

\* entries of a playlist's info: None, an entry whose file was written, an
\* entry whose file was not written
EntryKinds == {"none", "made", "missing"}
Playlists == UNION {[1..n -> EntryKinds] : n \in 1..MaxEntries}

ErrorResponse(j, message) ==
    [route |-> "/download", status |-> 500, kind |-> "error", thread |-> j,
     url |-> thread[j].url, error |-> message]

\* an exception that leaves download_video: the framework answers 500 itself
UnhandledResponse(j) ==
    [route |-> "/download", status |-> 500, kind |-> "unhandled", thread |-> j,
     url |-> thread[j].url]

\* line 150
ResetRecord(t) == [progress |-> 0, timestamp |-> t]

\* a reset that updates the record in place instead of replacing it
ResetUpdating(items, url, t) ==
    IF Has(items, url)
    THEN Store(items, url, [Lookup(items, url) EXCEPT !.progress = 0, !.timestamp = t])
    ELSE Store(items, url, ResetRecord(t))

\* line 150: download_progress[video_url] = {...}
Reset(items, url, t) == Store(items, url, ResetRecord(t))

\* a handler that resets the record before it looks at the url
download_no_url_resetting ==
    /\ response' = NoUrlResponse("/download")
    /\ download_progress' = Store(download_progress, NoUrl, ResetRecord(now))
    /\ UNCHANGED <<now, thread, reaper, files, janitor, requests>>

\* lines 141-147 with no url
download_no_url ==
    /\ response' = NoUrlResponse("/download")
    /\ UNCHANGED <<now, download_progress, thread, reaper, files, janitor, requests>>

\* lines 141-153 (and 171-181 for a video job) with a url; the request is
\* served by the first free thread
download_reset(j, video_url, format_type, quality) ==
    /\ thread[j].pc = "idle"
    /\ \A i \in Threads : i < j => thread[i].pc # "idle"
    /\ requests' = Min(requests + 1, MaxRequests)
    /\ download_progress' = Reset(download_progress, video_url, now)
    /\ thread' = [thread EXCEPT ![j] =
           [IdleThread EXCEPT !.pc = IF format_type = "mp3" THEN "probe" ELSE "fetch",
                              !.url = video_url, !.format = format_type,
                              !.quality = quality]]
    /\ response' = NoResponse
    /\ UNCHANGED <<now, reaper, files, janitor>>

(* ---------------- find_best_audio_format ---------------- *)
\* the formats yt-dlp lists: audio streams whose format_note says so in
\* either case, an audio stream that is not in bitrate_map, a stream whose
\* note does not say audio, and one without a format_note
FormatDicts ==
    { [format_id |-> "140", format_note |-> "audio only"],
      [format_id |-> "251", format_note |-> "Audio only"],
      [format_id |-> "256", format_note |-> "audio only"],
      [format_id |-> "139", format_note |-> "AUDIO only"],
      [format_id |-> "18",  format_note |-> "360p"],
      [format_id |-> "22"] }

\* what extract_info(download=False) returns: the info of a video with its
\* formats, or the info of a playlist, which has entries and no formats
VideoInfos == {[formats |-> f] : f \in UNION {[1..n -> FormatDicts] : n \in 0..MaxFormats}}
PlaylistInfo == [entries |-> "entries"]
ProbeInfos == VideoInfos \cup {PlaylistInfo}

\* str.lower() on the notes of FormatDicts
Lower(note) ==
    IF note \in {"Audio only", "AUDIO only"} THEN "audio only" ELSE note

\* "audio" in note, for a lower-case note
ContainsAudio(note) == note = "audio only"

\* lines 128-130
RECURSIVE AvailableFormats(_, _)
AvailableFormats(formats, i) ==
    IF i > Len(formats) THEN <<>>
    ELSE LET fmt == formats[i]
             rest == AvailableFormats(formats, i + 1)
         IN  IF ContainsAudio(Lower(Field(fmt, "format_note", "")))
             THEN <<fmt.format_id>> \o rest ELSE rest

\* line 133
bitrate_map == [x \in {"128k", "192k", "320k"} |->
                   IF x = "128k" THEN "140" ELSE IF x = "192k" THEN "251" ELSE "256"]

InSeq(x, seq) == \E i \in DOMAIN seq : seq[i] = x

\* a selection whose fallback is the first listed audio format
SelectFirst(available_formats, preferred_quality) ==
    IF /\ preferred_quality \in DOMAIN bitrate_map
       /\ InSeq(bitrate_map[preferred_quality], available_formats)
    THEN bitrate_map[preferred_quality]
    ELSE IF available_formats # <<>>
    THEN available_formats[1]
    ELSE "bestaudio/best"

\* lines 134-136
Select(available_formats, preferred_quality) ==
    IF /\ preferred_quality \in DOMAIN bitrate_map
       /\ InSeq(bitrate_map[preferred_quality], available_formats)
    THEN bitrate_map[preferred_quality]
    ELSE IF available_formats # <<>>
    THEN available_formats[Len(available_formats)]
    ELSE "bestaudio/best"

\* an exception of find_best_audio_format's own code, which leaves
\* download_video as UnhandledResponse does
KeyErrorResponse(j) ==
    [route |-> "/download", status |-> 500, kind |-> "unhandled", thread |-> j,
     url |-> thread[j].url, exception |-> "KeyError"]

\* lines 126-127: extract_info(download=False) returns info
probe_extract(j, info) ==
    /\ thread[j].pc = "probe"
    /\ thread' = [thread EXCEPT ![j].pc = "select", ![j].probed = info]
    /\ response' = NoResponse
    /\ UNCHANGED <<now, download_progress, reaper, files, janitor, requests>>

\* line 129 on an info without formats: info["formats"] raises KeyError,
\* before the try of line 183
probe_no_formats(j) ==
    /\ thread[j].pc = "select"
    /\ "formats" \notin DOMAIN thread[j].probed
    /\ thread' = [thread EXCEPT ![j] = IdleThread]
    /\ response' = KeyErrorResponse(j)
    /\ UNCHANGED <<now, download_progress, reaper, files, janitor, requests>>

\* lines 128-136 and 157: find_best_audio_format returns
probe_return(j) ==
    /\ thread[j].pc = "select"
    /\ "formats" \in DOMAIN thread[j].probed
    /\ thread' = [thread EXCEPT ![j].pc = "fetch", ![j].probed = NoProbe,
                     ![j].best_audio_format =
                         Select(AvailableFormats(thread[j].probed.formats, 1),
                                thread[j].quality)]
    /\ response' = NoResponse
    /\ UNCHANGED <<now, download_progress, reaper, files, janitor, requests>>

\* line 127: extract_info(download=False) raises inside
\* find_best_audio_format, before the try of line 183
probe_raise(j) ==
    /\ thread[j].pc = "probe"
    /\ thread' = [thread EXCEPT ![j] = IdleThread]
    /\ response' = UnhandledResponse(j)
    /\ UNCHANGED <<now, download_progress, reaper, files, janitor, requests>>

\* line 185 raises: lines 227-229
fetch_raise(j) ==
    /\ thread[j].pc = "fetch"
    /\ thread' = [thread EXCEPT ![j] = IdleThread]
    /\ response' = ErrorResponse(j, "fetch failed")
    /\ UNCHANGED <<now, download_progress, reaper, files, janitor, requests>>

\* line 185 returns the info of a single video; yt-dlp has written `made`
fetch_return_single(j, made) ==
    /\ thread[j].pc = "fetch"
    /\ LET t == thread[j]
           src == Path(Title(t.url), t.quality, SourceExt(t.format))
       IN  /\ made \in {{}, {src}, {Mp3Path(src)}}
           /\ files' = files \cup made
    /\ thread' = [thread EXCEPT ![j].pc = "fetched", ![j].info = [kind |-> "single"]]
    /\ response' = NoResponse
    /\ UNCHANGED <<now, download_progress, reaper, janitor, requests>>

\* line 185 returns the info of a playlist; yt-dlp has written the files of
\* the entries that are "made".  An audio job is not here with a playlist:
\* the info of a playlist has no formats, and line 129 has ended the job
fetch_return_playlist(j, entries) ==
    /\ thread[j].pc = "fetch"
    /\ thread[j].format # "mp3"
    /\ LET t == thread[j]
       IN  files' = files \cup
               {Path(EntryTitle(t.url, i), t.quality, SourceExt(t.format)) :
                    i \in {i \in DOMAIN entries : entries[i] = "made"}}
    /\ thread' = [thread EXCEPT ![j].pc = "fetched",
                     ![j].info = [kind |-> "playlist", entries |-> entries]]
    /\ response' = NoResponse
    /\ UNCHANGED <<now, download_progress, reaper, janitor, requests>>

\* a completion on a plain dict: nothing is stored for a missing key
CompleteExisting(items, url, t) ==
    IF Has(items, url)
    THEN Store(items, url, [Lookup(items, url) EXCEPT !.progress = 100])
    ELSE items

\* line 188: download_progress[video_url]["progress"] = 100
Complete(items, url, t) ==
    LET touched == Touch(items, url, t)
    IN  Store(touched, url, [Lookup(touched, url) EXCEPT !.progress = 100])

complete(j) ==
    /\ thread[j].pc = "fetched"
    /\ download_progress' = Complete(download_progress, thread[j].url, now)
    /\ thread' = [thread EXCEPT ![j].pc = "resolve"]
    /\ response' = NoResponse
    /\ UNCHANGED <<now, reaper, files, janitor, requests>>

\* a listing that does not look whether the entry's file exists
RECURSIVE DownloadedFilesUnchecked(_, _, _, _)
DownloadedFilesUnchecked(t, entries, i, present) ==
    IF i > Len(entries) THEN <<>>
    ELSE LET filepath == Path(EntryTitle(t.url, i), t.quality, SourceExt(t.format))
             rest == DownloadedFilesUnchecked(t, entries, i + 1, present)
         IN  IF entries[i] = "none" THEN rest ELSE <<filepath>> \o rest

\* lines 191-199: the names of the entries whose file exists
RECURSIVE DownloadedFiles(_, _, _, _)
DownloadedFiles(t, entries, i, present) ==
    IF i > Len(entries) THEN <<>>
    ELSE LET filepath == Path(EntryTitle(t.url, i), t.quality, SourceExt(t.format))
             rest == DownloadedFiles(t, entries, i + 1, present)
         IN  IF entries[i] = "none" THEN rest
             ELSE IF filepath \in present THEN <<filepath>> \o rest
             ELSE rest

\* lines 207-214: the path of a single video's file
SinglePath(t, present) ==
    LET filepath == Path(Title(t.url), t.quality, SourceExt(t.format))
    IN  IF t.format = "mp3" /\ Mp3Path(filepath) \in present
        THEN Mp3Path(filepath) ELSE filepath

\* line 222: threading.Thread(target=delayed_delete, args=(filepath,)).start()
Schedule(tasks, filepath, t) ==
    tasks \cup {[filepath |-> filepath, at |-> t + DeleteDelay, done |-> FALSE]}

\* lines 190-204
respond_playlist(j) ==
    /\ thread[j].pc = "resolve"
    /\ thread[j].info.kind = "playlist"
    /\ LET downloaded_files ==
               DownloadedFiles(thread[j], thread[j].info.entries, 1, files)
       IN  response' =
               IF downloaded_files = <<>>
               THEN ErrorResponse(j, "No valid files found!")
               ELSE [route |-> "/download", status |-> 200, kind |-> "playlist",
                     thread |-> j, url |-> thread[j].url,
                     files |-> downloaded_files]
    /\ thread' = [thread EXCEPT ![j] = IdleThread]
    /\ UNCHANGED <<now, download_progress, reaper, files, janitor, requests>>

\* lines 206-225
respond_single(j) ==
    /\ thread[j].pc = "resolve"
    /\ thread[j].info.kind = "single"
    /\ LET filepath == SinglePath(thread[j], files)
       IN  IF filepath \in files
           THEN /\ janitor' = Schedule(janitor, filepath, now)
                /\ response' = [route |-> "/download", status |-> 200,
                                kind |-> "file", thread |-> j,
                                url |-> thread[j].url, files |-> <<filepath>>]
           ELSE /\ janitor' = janitor
                /\ response' = ErrorResponse(j, "File not found!")
    /\ thread' = [thread EXCEPT ![j] = IdleThread]
    /\ UNCHANGED <<now, download_progress, reaper, files, requests>>

(* ---------------- cleanup_progress_data ---------------- *)
\* an expiry test that also removes a record aged exactly TTL
ExpiredAtTTL(current_time, data) == current_time - data.timestamp >= TTL

\* line 31
Expired(current_time, data) == current_time - data.timestamp > TTL

\* the thread between two passes; its locals are dead
Asleep ==
    [pc |-> "sleep", wake |-> 0, current_time |-> 0, to_remove |-> <<>>,
     it_len |-> 0, it_pos |-> 0, at_start |-> <<>>, left |-> <<>>, alone |-> TRUE]

\* the thread after an uncaught exception
Ended == [Asleep EXCEPT !.pc = "dead"]

\* History of the pass under way, kept beside the thread's locals: at_start
\* is the dict when the pass began, left the dict as the thread's last step
\* left it, alone whether no other thread has changed the dict since
Observed ==
    IF reaper.alone /\ download_progress = reaper.left THEN reaper
    ELSE [reaper EXCEPT !.alone = FALSE, !.at_start = <<>>, !.left = <<>>]

\* lines 26-30: a new pass of the while loop; the for loop's iterator is made
reaper_begin ==
    /\ reaper.pc = "sleep"
    /\ now >= reaper.wake
    /\ reaper' = [reaper EXCEPT !.pc = "scan", !.wake = 0, !.current_time = now,
                     !.to_remove = <<>>, !.it_len = Len(download_progress),
                     !.it_pos = 0, !.at_start = download_progress,
                     !.left = download_progress, !.alone = TRUE]
    /\ response' = NoResponse
    /\ UNCHANGED <<now, download_progress, thread, files, janitor, requests>>

\* lines 30-32: one step of the for loop over download_progress.items().  The
\* iterator raises RuntimeError when the dict's size is not the size it had
\* when the iterator was made; nothing catches it and the thread ends
reaper_next ==
    /\ reaper.pc = "scan"
    /\ reaper' =
           IF Len(download_progress) # reaper.it_len
           THEN Ended
           ELSE IF reaper.it_pos = reaper.it_len
           THEN [Observed EXCEPT !.pc = "delete"]
           ELSE LET item == download_progress[reaper.it_pos + 1]
                IN  [Observed EXCEPT !.it_pos = @ + 1,
                        !.to_remove = IF Expired(reaper.current_time, item[2])
                                      THEN Append(@, item[1]) ELSE @]
    /\ response' = NoResponse
    /\ UNCHANGED <<now, download_progress, thread, files, janitor, requests>>

\* lines 34-35: one step of the deleting loop (KeyError ends the thread)
reaper_delete ==
    /\ reaper.pc = "delete"
    /\ reaper.to_remove # <<>>
    /\ LET url == Head(reaper.to_remove)
       IN  IF Has(download_progress, url)
           THEN /\ download_progress' = Delete(download_progress, url)
                /\ reaper' = [Observed EXCEPT !.to_remove = Tail(@),
                                 !.left = IF Observed.alone
                                          THEN Delete(download_progress, url)
                                          ELSE <<>>]
           ELSE /\ download_progress' = download_progress
                /\ reaper' = Ended
    /\ response' = NoResponse
    /\ UNCHANGED <<now, thread, files, janitor, requests>>

\* line 37: time.sleep(300)
reaper_sleep ==
    /\ reaper.pc = "delete"
    /\ reaper.to_remove = <<>>
    /\ reaper' = [Asleep EXCEPT !.wake = now + SweepInterval]
    /\ response' = NoResponse
    /\ UNCHANGED <<now, download_progress, thread, files, janitor, requests>>

(* ---------------- delayed_delete ---------------- *)
\* lines 72-77: the sleep is over; os.remove, whose failure is swallowed
janitor_delete(task) ==
    /\ task \in janitor
    /\ ~task.done
    /\ now >= task.at
    /\ files' = files \ {task.filepath}
    /\ janitor' = (janitor \ {task}) \cup {[task EXCEPT !.done = TRUE]}
    /\ response' = NoResponse
    /\ UNCHANGED <<now, download_progress, thread, reaper, requests>>

(* ---------------- time ---------------- *)
\* wake-up times of the delayed_delete threads that are asleep
Deadlines == {task.at : task \in {x \in janitor : ~x.done}}

\* threads that are inside a call that takes time: a request waiting for
\* yt-dlp, the cleanup thread asleep (or ended)
Blocked ==
    /\ \A j \in Threads : thread[j].pc \in {"idle", "probe", "fetch"}
    /\ reaper.pc \in {"sleep", "dead"}

tick(instants) ==
    /\ Blocked
    /\ \E t \in instants \cup Deadlines :
           /\ t > now
           /\ t <= MaxTime
           /\ \A d \in Deadlines : t <= d
           /\ now' = t
    /\ response' = NoResponse
    /\ UNCHANGED <<download_progress, thread, reaper, files, janitor, requests>>

(* ---------------- the program ---------------- *)
Init ==
    /\ now = 0
    /\ download_progress = <<>>
    /\ thread = [j \in Threads |-> IdleThread]
    /\ reaper = Asleep
    /\ files = {}
    /\ janitor = {}
    /\ requests = 0
    /\ response = NoResponse

\* the steps of the cleanup thread
Reaper == reaper_begin \/ reaper_next \/ reaper_delete \/ reaper_sleep

\* the budgets of the specifications that count requests and reports (the
\* counters stay at their bound once they reach it)
MoreRequests == requests < MaxRequests
MoreHooks(j) == thread[j].hooks < MaxHooks

\* the one thread that serves the requests of Spec, one after the other
Worker == CHOOSE j \in Threads : \A i \in Threads : j <= i

(* The progress table over its life: video requests served one after the
   other, without end; progress reports with a known total under the
   requested urls; the cleanup thread and the clock.  yt-dlp raises, or
   returns without the file. *)
Next ==
    \/ \E url \in Urls, q \in Qualities : download_reset(Worker, url, "mp4", q)
    \/ \E d \in KnownEvents, k \in Urls : hook_compute(Worker, d, k)
    \/ hook_store(Worker)
    \/ fetch_raise(Worker)
    \/ fetch_return_single(Worker, {})
    \/ complete(Worker)
    \/ respond_single(Worker)
    \/ Reaper
    \/ tick(Instants)

Spec == Init /\ [][Next]_vars

(* Polls and requests without url beside one job after the other on one
   url, its progress reports, the cleanup thread and the clock. *)
NextPoll ==
    \/ \E url \in Urls \cup {NoUrl} : check_progress(url)
    \/ download_no_url
    \/ \E url \in PolledUrls, q \in Qualities : download_reset(Worker, url, "mp4", q)
    \/ \E d \in KnownEvents, k \in PolledUrls : hook_compute(Worker, d, k)
    \/ hook_store(Worker)
    \/ fetch_raise(Worker)
    \/ fetch_return_single(Worker, {})
    \/ complete(Worker)
    \/ respond_single(Worker)
    \/ Reaper
    \/ tick(Instants)

SpecPoll == Init /\ [][NextPoll]_vars

(* Jobs on one url at one instant: concurrent requests for the same url,
   their progress reports under that url, with and without a total. *)
NextKey ==
    \/ \E j \in Threads, url \in PolledUrls, q \in Qualities :
           MoreRequests /\ download_reset(j, url, "mp4", q)
    \/ \E j \in Threads, d \in StoreEvents, k \in PolledUrls :
           MoreHooks(j) /\ hook_compute(j, d, k)
    \/ \E j \in Threads : hook_store(j)
    \/ \E j \in Threads : fetch_raise(j)
    \/ \E j \in Threads : fetch_return_single(j, {})
    \/ \E j \in Threads : complete(j)
    \/ \E j \in Threads : respond_single(j)

SpecKey == Init /\ [][NextKey]_vars

(* The progress reports of one job after the other on one url, at one
   instant: any number of reports, with a known total, an estimated total
   that the download exceeds, and no total. *)
NextHook ==
    \/ \E url \in PolledUrls, q \in Qualities : download_reset(Worker, url, "mp4", q)
    \/ \E d \in HookEvents, k \in PolledUrls : hook_compute(Worker, d, k)
    \/ hook_store(Worker)
    \/ fetch_raise(Worker)
    \/ fetch_return_single(Worker, {})
    \/ complete(Worker)
    \/ respond_single(Worker)

SpecHook == Init /\ [][NextHook]_vars

(* The cleanup thread under fair scheduling: video requests that fail, one
   after the other; the cleanup thread is scheduled whenever it can run, and
   the clock goes on whenever every thread is blocked. *)
NextLive ==
    \/ \E url \in Urls, q \in Qualities : download_reset(Worker, url, "mp4", q)
    \/ fetch_raise(Worker)
    \/ Reaper
    \/ tick(Instants)

SpecLive ==
    Init /\ [][NextLive]_vars /\ WF_vars(Reaper) /\ WF_vars(tick(Instants))

(* Audio requests, one after the other, up to the choice of the stream:
   the infos yt-dlp can return for the url, any quality label. *)
NextProbe ==
    \/ \E url \in PolledUrls, q \in AudioQualities :
           download_reset(Worker, url, "mp3", q)
    \/ \E info \in ProbeInfos : probe_extract(Worker, info)
    \/ probe_no_formats(Worker)
    \/ probe_return(Worker)
    \/ probe_raise(Worker)
    \/ fetch_raise(Worker)

SpecProbe == Init /\ [][NextProbe]_vars

(* Playlist jobs, one after the other: the entries yt-dlp returns, empty,
   with their file written or without; the files stay in the directory. *)
NextPlaylist ==
    \/ \E url \in Urls, q \in Qualities : download_reset(Worker, url, "mp4", q)
    \/ fetch_raise(Worker)
    \/ \E entries \in Playlists : fetch_return_playlist(Worker, entries)
    \/ complete(Worker)
    \/ respond_playlist(Worker)

SpecPlaylist == Init /\ [][NextPlaylist]_vars

(* Concurrent video requests at one instant: two request threads, progress
   reports under any key, the first pass of the cleanup thread. *)
NextRace ==
    \/ \E j \in Threads, url \in Urls, q \in Qualities :
           MoreRequests /\ download_reset(j, url, "mp4", q)
    \/ \E j \in Threads, d \in StoreEvents, k \in HookKeys :
           MoreHooks(j) /\ hook_compute(j, d, k)
    \/ \E j \in Threads : hook_store(j)
    \/ \E j \in Threads : fetch_raise(j)
    \/ \E j \in Threads : fetch_return_single(j, {})
    \/ \E j \in Threads : complete(j)
    \/ \E j \in Threads : respond_single(j)
    \/ reaper_begin
    \/ reaper_next
    \/ reaper_sleep

SpecRace == Init /\ [][NextRace]_vars

(* The files of the jobs: audio and video requests, single videos and
   playlists, the files yt-dlp writes, the delayed_delete threads and the
   clock over the first minutes.  yt-dlp reports no progress. *)
NextFiles ==
    \/ \E j \in Threads, url \in Urls, f \in Formats, q \in Qualities :
           MoreRequests /\ download_reset(j, url, f, q)
    \/ \E j \in Threads, info \in {[formats |-> <<>>], PlaylistInfo} :
           probe_extract(j, info)
    \/ \E j \in Threads : probe_no_formats(j)
    \/ \E j \in Threads : probe_return(j)
    \/ \E j \in Threads : probe_raise(j)
    \/ \E j \in Threads : fetch_raise(j)
    \/ \E j \in Threads, made \in SUBSET {Path(Title(u), q, e) :
                u \in Urls, q \in Qualities, e \in {"webm", "mp3", "mp4"}} :
           fetch_return_single(j, made)
    \/ \E j \in Threads, entries \in Playlists : fetch_return_playlist(j, entries)
    \/ \E j \in Threads : complete(j)
    \/ \E j \in Threads : respond_playlist(j)
    \/ \E j \in Threads : respond_single(j)
    \/ \E task \in janitor : janitor_delete(task)
    \/ tick({1})

SpecFiles == Init /\ [][NextFiles]_vars

(* ======================= properties ======================= *)
ZeroBody ==
    [progress |-> 0, downloaded_bytes |-> 0, total_bytes |-> 0, speed |-> 0,
     eta |-> 0]

\* thread j takes the step from pc `from` to pc `to`
Steps(j, from, to) == thread[j].pc = from /\ thread'[j].pc = to

(* C1: last writer wins on a key.  A poll of the key a write has just been
   made under returns that write's values: after the reset of line 150 the
   five fields are 0, whatever record was there before; after the hook's
   store of lines 61-68 they are the hook's percent, byte counts, speed
   and eta. *)
C1_LastWriteWins ==
    [][\A j \in Threads :
        /\ (thread[j].pc = "idle" /\ thread'[j].pc # "idle")
               => ProgressBody(download_progress', thread'[j].url) = ZeroBody
        /\ Steps(j, "hook", "fetch")
               => ProgressBody(download_progress', thread[j].h.url) =
                      [progress         |-> thread[j].h.percent,
                       downloaded_bytes |-> thread[j].h.downloaded_bytes,
                       total_bytes      |-> thread[j].h.total_bytes,
                       speed            |-> thread[j].h.speed,
                       eta              |-> thread[j].h.eta]]_vars

\* two jobs on url "a": the first has stored a hook record under "a" (the
\* only key there is), and the record is now the second job's reset
C1_Witness ==
    /\ thread[1].url = "a" /\ thread[1].pc = "fetch" /\ thread[1].hooks = 1
    /\ thread[2].url = "a" /\ thread[2].pc = "fetch" /\ thread[2].hooks = 0
    /\ Keys(download_progress) = {"a"}
    /\ DOMAIN Lookup(download_progress, "a") = {"progress", "timestamp"}
    /\ ProgressBody(download_progress, "a") = ZeroBody

(* C2: a poll for a key that has no record is answered 200 with progress,
   downloaded_bytes, total_bytes, speed and eta all 0. *)
C2_AbsentKeyIsZero ==
    (/\ response.route = "/progress"
     /\ response.status # 400
     /\ ~Has(download_progress, response.url))
        => (response.status = 200 /\ response.body = ZeroBody)

\* the poll of a running job's url after the cleanup thread removed its record
C2_Witness ==
    /\ response.route = "/progress"
    /\ response.status = 200
    /\ thread[Worker].pc = "fetch"
    /\ response.url = thread[Worker].url
    /\ download_progress = <<>>

\* the items whose record is not older than TTL at time t
Survivors(items, t) ==
    SelectSeq(items, LAMBDA item : ~(t - item[2].timestamp > TTL))

\* the cleanup thread has made its last deletion of a pass during which no
\* other thread changed the dict
SweepDoneAlone ==
    /\ reaper.pc = "delete"
    /\ reaper.to_remove = <<>>
    /\ reaper.alone
    /\ download_progress = reaper.left

(* C3: a pass of the cleanup thread at time now with no write interleaved
   removes exactly the records with now - timestamp > 1800 and leaves every
   other record as it was. *)
C3_SweepExact ==
    SweepDoneAlone => download_progress = Survivors(reaper.at_start, now)

\* a pass that removed one of two records and kept the one aged exactly TTL
C3_Witness ==
    /\ SweepDoneAlone
    /\ Len(reaper.at_start) = 2
    /\ Len(download_progress) = 1
    /\ now - download_progress[1][2].timestamp = TTL

\* the record under key k, or that there is none
Entry(items, k) == IF Has(items, k) THEN <<Lookup(items, k)>> ELSE <<>>

(* C4: of two running jobs with different urls, no step of the one changes
   the record under the url of the other. *)
C4_JobsIsolated ==
    [][\A i, j \in Threads :
        (/\ i # j
         /\ thread[i].pc # "idle" /\ thread'[i] = thread[i]
         /\ thread[j].pc # "idle" /\ thread'[j] # thread[j]
         /\ thread[i].url # thread[j].url)
            => Entry(download_progress', thread[i].url) =
                   Entry(download_progress, thread[i].url)]_vars

(* C5: the completion step of line 188 leaves the record under the job's
   url with progress 100, also when the record was removed before it. *)
C5_CompletionSets100 ==
    [][\A j \in Threads :
        Steps(j, "fetched", "resolve")
            => /\ Has(download_progress', thread[j].url)
               /\ Lookup(download_progress', thread[j].url).progress = 100]_vars

\* a completed job whose hook wrote a record, and whose record is now the
\* default record made at the completion: the one before it was removed
C5_Witness ==
    /\ thread[Worker].pc = "resolve"
    /\ thread[Worker].hooks = 1
    /\ now = TTL + 1
    /\ Keys(download_progress) = {thread[Worker].url}
    /\ Lookup(download_progress, thread[Worker].url) =
           [progress |-> 100, timestamp |-> now]

(* C6: when a /download request is answered with an error, the record of
   its url does not have progress 100. *)
C6_FailureBelow100 ==
    (response.route = "/download" /\ response.status = 500)
        => ~(/\ Has(download_progress, response.url)
             /\ Lookup(download_progress, response.url).progress = 100)

(* C7: a failure of a /download job is answered with the structured
   500 {"error": message}; no exception leaves the handler. *)
C7_FailuresStructured ==
    (response.route = "/download" /\ response.status = 500)
        => response.kind = "error"

(* C8: a request with no url is answered 400 {"error": "No URL provided"}
   and changes nothing: not the table, not the threads, not the files, not
   the scheduled deletions. *)
C8_NoUrlNoEffect ==
    [][response'.status = 400
        => /\ response'.error = "No URL provided"
           /\ UNCHANGED <<download_progress, thread, files, janitor, requests>>]_vars

\* a /download without url answered while a record is in the table
C8_Witness ==
    /\ response = NoUrlResponse("/download")
    /\ download_progress # <<>>
    /\ thread[Worker].pc = "fetch"

(* C9: every file a successful /download hands to its caller has a
   deletion scheduled. *)
C9_ReturnedFilesScheduled ==
    (response.route = "/download" /\ response.status = 200)
        => \A i \in DOMAIN response.files :
               \E task \in janitor : task.filepath = response.files[i]

(* C10: a file whose deletion was scheduled at T is there until T + 59 s and
   is gone from T + 61 s on, for every job that scheduled it. *)
C10_SixtySecondGrace ==
    \A task \in janitor :
        /\ now < task.at => task.filepath \in files
        /\ now > task.at => task.filepath \notin files

\* the progress a read of download_progress[k]["progress"] finds: the
\* defaultdict makes the record of a missing key with progress 0
Previous(items, k) == IF Has(items, k) THEN Lookup(items, k).progress ELSE 0

(* C11: the percent the hook computes is downloaded * 100 / total when the
   known or estimated total is above 0; otherwise it is min(95, previous + 1)
   for the progress stored under the hook's key: one more than the previous
   below 95, never above 95 and never 100. *)
C11_PercentFormula ==
    [][\A j \in Threads :
        Steps(j, "fetch", "hook") =>
            LET h == thread'[j].h
                previous == Previous(download_progress, h.url)
            IN  IF h.total_bytes > 0
                THEN h.percent * h.total_bytes = h.downloaded_bytes * 100
                ELSE /\ h.percent = Min(PlaceholderCap, previous + 1)
                     /\ h.percent <= PlaceholderCap
                     /\ h.percent # 100
                     /\ previous < PlaceholderCap => h.percent = previous + 1]_vars

\* the record stores the capped 95 of a report without total, and the next
\* report without total computes 95 again
C11_Witness ==
    /\ thread[Worker].pc = "hook"
    /\ thread[Worker].h.total_bytes = 0
    /\ thread[Worker].h.percent = PlaceholderCap
    /\ Has(download_progress, thread[Worker].h.url)
    /\ Lookup(download_progress, thread[Worker].h.url).progress = PlaceholderCap
    /\ Lookup(download_progress, thread[Worker].h.url).total_bytes = 0

(* C12: the store of a progress callback of a job requested with url u
   writes the record under u: a poll of u right after it returns the
   callback's values. *)
C12_HookWritesJobKey ==
    [][\A j \in Threads :
        Steps(j, "hook", "fetch") =>
            /\ thread[j].h.url = thread[j].url
            /\ ProgressBody(download_progress', thread[j].url) =
                   [progress         |-> thread[j].h.percent,
                    downloaded_bytes |-> thread[j].h.downloaded_bytes,
                    total_bytes      |-> thread[j].h.total_bytes,
                    speed            |-> thread[j].h.speed,
                    eta              |-> thread[j].h.eta]]_vars

(* C13: the reset, the store of a progress callback and the completion write
   each leave the record they wrote with the time of the write as its
   timestamp. *)
C13_WritesRefreshTimestamp ==
    [][\A j \in Threads :
        /\ (thread[j].pc = "idle" /\ thread'[j].pc # "idle")
               => Lookup(download_progress', thread'[j].url).timestamp = now
        /\ Steps(j, "hook", "fetch")
               => Lookup(download_progress', thread[j].h.url).timestamp = now
        /\ Steps(j, "fetched", "resolve")
               => Lookup(download_progress', thread[j].url).timestamp = now]_vars

(* C14: the cleanup thread never ends. *)
C14_ReaperRunsForever == reaper.pc # "dead"

(* C15: when the cleanup thread deletes a key, the record stored under the
   key at that moment is older than 1800 s. *)
C15_DeletesOnlyStale ==
    [][(/\ reaper.pc = "delete"
        /\ reaper.to_remove # <<>>
        /\ download_progress' # download_progress)
           => now - Lookup(download_progress, Head(reaper.to_remove)).timestamp
                  > TTL]_vars

\* the record under k was written at time t, early enough for the clock of
\* the exploration to pass t + TTL
WrittenAt(k, t) ==
    /\ t + TTL < MaxTime
    /\ Has(download_progress, k)
    /\ Lookup(download_progress, k).timestamp = t

(* C16: a record written at time T is removed, or written again later than
   T, once a pass of the fairly scheduled cleanup thread starts after
   T + 1800 s. *)
C16_StaleRecordsRemoved ==
    \A k \in Urls : \A t \in 0..(MaxTime - TTL - 1) :
        WrittenAt(k, t) ~> ~WrittenAt(k, t)

(* C17: every stored record has 0 <= progress <= 100. *)
C17_ProgressInRange ==
    \A i \in DOMAIN download_progress :
        /\ download_progress[i][2].progress >= 0
        /\ download_progress[i][2].progress <= 100

\* the ids of the formats of an info whose note names audio, in the order
\* yt-dlp lists them
Enumerated(info) ==
    IF "formats" \in DOMAIN info
    THEN SelectSeq(info.formats,
             LAMBDA fmt : /\ "format_note" \in DOMAIN fmt
                          /\ fmt.format_note \in
                                 {"audio only", "Audio only", "AUDIO only"})
    ELSE <<>>

(* C18: the selector find_best_audio_format returns is the identifier of the
   table for the requested quality (128k: 140, 192k: 251, 320k: 256) exactly
   when the quality is in the table and that identifier is among the listed
   audio formats; otherwise it is the last listed audio format; it is
   "bestaudio/best" exactly when no audio format is listed. *)
C18_SelectorTable ==
    [][\A j \in Threads :
        Steps(j, "select", "fetch") =>
            LET audio == Enumerated(thread[j].probed)
                ids == {audio[i].format_id : i \in DOMAIN audio}
                q == thread[j].quality
                wanted == IF q = "128k" THEN "140"
                          ELSE IF q = "192k" THEN "251"
                          ELSE IF q = "320k" THEN "256" ELSE "none"
                selector == thread'[j].best_audio_format
            IN  /\ wanted \in ids => selector = wanted
                /\ (wanted \notin ids /\ audio # <<>>)
                       => selector = audio[Len(audio)].format_id
                /\ selector = "bestaudio/best" <=> audio = <<>>]_vars

\* the format of the requested 192k, 251, is not listed: the job goes on
\* with the last listed audio format, 139
C18_Witness ==
    /\ thread[Worker].pc = "fetch"
    /\ thread[Worker].format = "mp3"
    /\ thread[Worker].quality = "192k"
    /\ thread[Worker].best_audio_format = "139"

\* the file of entry i of the playlist job t
EntryFile(t, i) == Path(EntryTitle(t.url, i), t.quality, SourceExt(t.format))

(* C19: a playlist job whose fetch returned is answered 200 with the files
   of exactly the entries that are not empty and whose file is in the
   downloads directory, in the order of the entries, and 500 exactly when
   there is no such entry. *)
C19_PlaylistReportsProduced ==
    [][\A j \in Threads :
        (Steps(j, "resolve", "idle") /\ thread[j].info.kind = "playlist") =>
            LET t == thread[j]
                entries == t.info.entries
                found == {i \in DOMAIN entries :
                             entries[i] # "none" /\ EntryFile(t, i) \in files}
            IN  /\ response'.status = 500 <=> found = {}
                /\ found = {} => response'.error = "No valid files found!"
                /\ found # {} =>
                       /\ response'.status = 200
                       /\ Len(response'.files) = Cardinality(found)
                       /\ \A i \in found : InSeq(EntryFile(t, i), response'.files)
                       /\ \A a, b \in DOMAIN response'.files :
                              a < b => \E x, y \in found :
                                  /\ x < y
                                  /\ response'.files[a] = EntryFile(t, x)
                                  /\ response'.files[b] = EntryFile(t, y)]_vars

\* a playlist job on "a" answered with the file of its second entry alone:
\* the first entry was skipped, no file of it is in the directory
C19_Witness ==
    /\ response.route = "/download"
    /\ response.status = 200
    /\ response.kind = "playlist"
    /\ response.files = <<Path(EntryTitle("a", 2), "q", "mp4")>>
    /\ Path(EntryTitle("a", 1), "q", "mp4") \notin files

(* C20: a /progress request, answered 200 or 400, leaves the table as it
   was: no record is made, none is changed, no timestamp is refreshed. *)
C20_PollReadOnly ==
    [][response'.route = "/progress" => download_progress' = download_progress]_vars

\* a poll at a time past the TTL of a record written at time 0: the record
\* is still there, with its timestamp of 0
C20_Witness ==
    /\ response.route = "/progress"
    /\ response.status = 200
    /\ now > TTL
    /\ Has(download_progress, response.url)
    /\ Lookup(download_progress, response.url).timestamp = 0

====
